---- MODULE Spec2Model ----
(***************************************************************************)
(* gptsh: a command-line chat client (src/main.rs).  The model follows     *)
(* main(): credential resolution, HTTP client construction, the            *)
(* get_output and handle_output closures, the one-shot branch and the      *)
(* REPL branch with its copy-then-commit conversation history.             *)
(*                                                                         *)
(* Text is a sequence of one-character strings.  Option<T> is a sequence   *)
(* of length 0 (None) or 1 (Some).  A JSON value is a tagged record.       *)
(***************************************************************************)
EXTENDS Integers, Sequences, FiniteSets, TLC

\* ------------------------------------------------------------------ bounds
\* Most REPL iterations (requests sent by the loop) explored.
MaxTurns == 2
\* Most prompt words on the command line.
MaxWords == 2
\* Most characters of free text following the marker position in a response.
MaxBody == 3

\* ------------------------------------------------------------------ text
None == <<>>
Some(x) == <<x>>

\* char::is_whitespace, restricted to the characters the model uses.
White == {" ", "\n"}

RECURSIVE TrimStart(_)
TrimStart(s) ==
    IF s # <<>> /\ Head(s) \in White THEN TrimStart(Tail(s)) ELSE s

RECURSIVE TrimEnd(_)
TrimEnd(s) ==
    IF s # <<>> /\ s[Len(s)] \in White
    THEN TrimEnd(SubSeq(s, 1, Len(s) - 1))
    ELSE s

\* str::trim
Trim(s) == TrimEnd(TrimStart(s))

\* str::starts_with
StartsWith(s, p) == Len(s) >= Len(p) /\ SubSeq(s, 1, Len(p)) = p

\* str::strip_prefix: Some(rest) when s starts with p, None otherwise.
StripPrefix(s, p) ==
    IF StartsWith(s, p) THEN Some(SubSeq(s, Len(p) + 1, Len(s))) ELSE None

RECURSIVE Concat(_, _)
Concat(words, sep) ==
    IF words = <<>> THEN <<>> ELSE words[1] \o Concat(Tail(words), sep)

\* [String]::join(sep)
RECURSIVE Join(_, _)
Join(words, sep) ==
    IF words = <<>> THEN <<>>
    ELSE IF Len(words) = 1 THEN words[1]
    ELSE words[1] \o sep \o Join(Tail(words), sep)

\* The "[shell]" tag of handle_output.
Marker == <<"[", "s", "h", "e", "l", "l", "]">>

\* ------------------------------------------------------------------ JSON
JNull == [t |-> "null"]
JStr(s) == [t |-> "str", s |-> s]
JNum(n) == [t |-> "num", n |-> n]
JArr(a) == [t |-> "arr", a |-> a]
JObj(o) == [t |-> "obj", o |-> o]

\* serde_json::Value::get with a string index: only an object has keys.
Get(v, k) ==
    IF v.t = "obj" /\ k \in DOMAIN v.o THEN Some(v.o[k]) ELSE None

\* serde_json::Value::get with a usize index: only an array has positions.
GetIdx(v, i) ==
    IF v.t = "arr" /\ i < Len(v.a) THEN Some(v.a[i + 1]) ELSE None

\* serde_json::Value::as_str
AsStr(v) == IF v.t = "str" THEN Some(v.s) ELSE None

\* Result values.
Ok(x) == [t |-> "Ok", v |-> x]
Err(e) == [t |-> "Err", e |-> e]

\* Option::ok_or
OkOr(opt, e) == IF opt = None THEN Err(e) ELSE Ok(opt[1])

\* ------------------------------------------------------------------ shell, system message
OSes == {"linux", "windows", "macos"}

shell(os) ==
    CASE os = "windows" -> "powershell"
      [] os = "macos" -> "zsh"
      [] OTHER -> "bash"

\* The instruction text, parametrised by shell and OS only; the fixed
\* paragraphs between the parameters are abbreviated.
system_message(os) ==
    << "You are both an AI assistant and a natural language to ", shell(os),
       " command translation engine on ", os, "." >>

Message(role, content) == [role |-> role, content |-> content]

URL == "https://api.openai.com/v1/chat/completions"
DefaultModel == "gpt-3.5-turbo"

\* ------------------------------------------------------------------ inputs
SeqsUpTo(S, n) == UNION {[1..k -> S] : k \in 0..n}

\* Command-line words and the Vec<String> clap builds from them (Some only
\* when at least one word was given).
Words == {<<"l", "i", "s", "t">>, <<"f", "i", "l", "e", "s">>, <<>>}
PromptArgs == UNION {[1..k -> Words] : k \in 1..MaxWords}

\* Lines the operator types at the "?" prompt.
Prompts == {<<"h", "i">>, <<"l", "s", "?">>}

\* Credentials: a well-formed key given with --key, a well-formed key in
\* the environment, and a key holding a byte no header value may hold.
ArgKey == <<"s", "k", "-", "a">>
EnvKey == <<"s", "k", "-", "e">>
BadKey == <<"s", "k", "\n">>

\* Assistant texts the REPL and one-shot runs receive: a plain answer, a
\* tagged command, and a tagged command with surrounding whitespace.
Replies ==
    { <<"o", "k">>,
      Marker \o <<" ", "l", "s">>,
      <<" ">> \o Marker \o <<" ", "l", "s", " ">> }

\* Response texts for the output handler alone: optional leading
\* whitespace, then nothing / the marker / a truncated marker, then free text.
Pads == {<<>>, <<" ">>, <<"\n", " ">>}
Marks == {<<>>, Marker, SubSeq(Marker, 1, Len(Marker) - 1)}
Texts ==
    {p \o m \o b : p \in Pads, m \in Marks, b \in SeqsUpTo({" ", "l", "["}, MaxBody)}

\* Well-formed JSON response bodies, built shape by shape.
Contents == {JStr(r) : r \in Replies} \cup {JNull, JNum(1), JObj(<<>>)}
MessageValues ==
    {JObj([content |-> c]) : c \in Contents}
        \cup {JNull, JObj(<<>>), JObj([role |-> JStr(<<"a">>)])}
ChoiceValues ==
    {JObj([message |-> m]) : m \in MessageValues} \cup {JNull, JObj(<<>>)}
ChoicesValues ==
    {JArr(<<>>), JNull, JObj([first |-> JNull])}
        \cup {JArr(<<e>>) : e \in ChoiceValues}
        \cup {JArr(<<e, JNull>>) : e \in ChoiceValues}
ErrorPayload == JObj([message |-> JStr(<<"b", "a", "d">>)])
Bodies ==
    {JObj([choices |-> c]) : c \in ChoicesValues}
        \cup {JObj([choices |-> c, error |-> ErrorPayload]) : c \in ChoicesValues}
        \cup {JNull, JArr(<<>>), JObj(<<>>), JObj([error |-> ErrorPayload])}

\* What the network does with one request: send() fails, the body is not
\* JSON, or a JSON body arrives.
NetOutcomes ==
    {[t |-> "send_failed"], [t |-> "not_json"]}
        \cup {[t |-> "json", body |-> b] : b \in Bodies}

\* The operator's reply to "Run command?" (or a terminal I/O failure), and
\* how running the command ended.
Answers == {"yes", "no", "io_error"}
Statuses == {"exit_0", "exit_1", "spawn_failed"}

\* ------------------------------------------------------------------ closures
\* Line 33: the fallback expression is an argument of unwrap_or, so the
\* environment lookup and its `?` are evaluated before unwrap_or is called.
ResolveKey_Default(k, e) ==
    IF k # None THEN Some(k[1]) ELSE IF e # None THEN Some(e[1]) ELSE Some(<<>>)

ResolveKey(k, e) ==
    IF e = None THEN None
    ELSE IF k # None THEN Some(k[1]) ELSE Some(e[1])

\* HeaderValue::from_str accepts visible ASCII only.
HeaderValueOk(text) == \A i \in 1..Len(text) : text[i] \notin {"\n", "\r"}

\* Lines 57-68: the assistant text, or the body itself as the error value
\* (here with a missing content read as the empty text).
Extract_Lenient(body) ==
    LET choices == Get(body, "choices")
        first == IF choices = None THEN None ELSE GetIdx(choices[1], 0)
        message == IF first = None THEN None ELSE Get(first[1], "message")
        content == IF message = None THEN None ELSE Get(message[1], "content")
        text == IF content = None
                THEN IF message = None THEN None ELSE Some(<<>>)
                ELSE AsStr(content[1])
    IN  OkOr(text, body)

\* Each and_then passes None through and applies the next lookup to Some.
Extract(body) ==
    LET choices == Get(body, "choices")
        first == IF choices = None THEN None ELSE GetIdx(choices[1], 0)
        message == IF first = None THEN None ELSE Get(first[1], "message")
        content == IF message = None THEN None ELSE Get(message[1], "content")
        text == IF content = None THEN None ELSE AsStr(content[1])
    IN  OkOr(text, body)

\* Lines 47-71: the request sent and the closure's result.
get_output(msgs, net) ==
    [ request |-> [url |-> URL, model |-> DefaultModel, messages |-> msgs],
      result |-> CASE net.t = "send_failed" -> Err("transport")
                   [] net.t = "not_json" -> Err("transport")
                   [] OTHER -> Ok(Extract(net.body)) ]

NoEffect ==
    [ outcome |-> "none", kind |-> "none", shown |-> <<>>, asked |-> FALSE,
      spawned |-> <<>> ]

\* Lines 74-94: what handling one response text does.  outcome is "ok"
\* (Ok(())), "err" (the prompt's I/O error, propagated) or "panic" (unwrap
\* of None); spawned lists the processes started.
handle_output_Eager(os, output, answer, status) ==
    IF StartsWith(Trim(output), Marker)
    THEN LET stripped == StripPrefix(output, Marker) IN
         IF stripped = None
         THEN [NoEffect EXCEPT !.outcome = "panic", !.kind = "command"]
         ELSE LET command == Trim(stripped[1]) IN
              [ outcome |-> IF answer = "io_error" THEN "err" ELSE "ok",
                kind |-> "command",
                shown |-> <<command>>,
                asked |-> TRUE,
                spawned |-> <<[program |-> shell(os), arg |-> command,
                               status |-> status]>> ]
    ELSE [ outcome |-> "ok", kind |-> "plain", shown |-> <<output>>,
           asked |-> FALSE, spawned |-> <<>> ]

handle_output(os, output, answer, status) ==
    IF StartsWith(Trim(output), Marker)
    THEN LET stripped == StripPrefix(output, Marker) IN
         IF stripped = None
         THEN [NoEffect EXCEPT !.outcome = "panic", !.kind = "command"]
         ELSE LET command == Trim(stripped[1]) IN
              [ outcome |-> IF answer = "io_error" THEN "err" ELSE "ok",
                kind |-> "command",
                shown |-> <<command>>,
                asked |-> TRUE,
                spawned |-> IF answer = "yes"
                            THEN <<[program |-> shell(os), arg |-> command,
                                    status |-> status]>>
                            ELSE <<>> ]
    ELSE [ outcome |-> "ok", kind |-> "plain", shown |-> <<output>>,
           asked |-> FALSE, spawned |-> <<>> ]

\* ------------------------------------------------------------------ state
VARIABLES
    os,            \* std::env::consts::OS
    key,           \* args.key: Option<String>
    env,           \* OPENAI_API_KEY in the environment: Option<String>
    prompt_arg,    \* args.prompt: Option<Vec<String>>
    pc,            \* where main is
    exit,          \* the process's exit status, None while it runs
    failure,       \* the error main returned, "none" if it has not
    api_key,       \* the resolved credential
    handler_set,   \* the ctrl+c handler is installed
    messages,      \* the REPL's conversation history
    new_messages,  \* the REPL's working copy of it
    prompt,        \* the line read in this turn
    response,      \* what the network did with the last request
    output,        \* the inner result of the last get_output call
    requests,      \* every request body sent, in order
    effect,        \* what handle_output did in this turn
    confirm,       \* the operator's reply to "Run command?" in this turn
    executed,      \* every process spawned, in order
    reported,      \* the error JSON printed to stderr in this turn
    reads,         \* lines read at the "?" prompt
    turns          \* history: <<prompt, reply>> of every successful round trip

vars ==
    << os, key, env, prompt_arg, pc, exit, failure, api_key, handler_set,
       messages, new_messages, prompt, response, output, requests, effect,
       confirm, executed, reported, reads, turns >>

SystemMessage == Message("system", system_message(os))

Blank ==
    /\ pc = "start"
    /\ exit = None
    /\ failure = "none"
    /\ api_key = <<>>
    /\ handler_set = FALSE
    /\ messages = <<>>
    /\ new_messages = <<>>
    /\ prompt = <<>>
    /\ response = [t |-> "none"]
    /\ output = [t |-> "none"]
    /\ requests = <<>>
    /\ effect = NoEffect
    /\ confirm = "none"
    /\ executed = <<>>
    /\ reported = <<>>
    /\ reads = 0
    /\ turns = <<>>

\* Line 32: the parsed arguments and the environment the process starts in.
Init ==
    /\ os \in OSes
    /\ key \in {None, Some(ArgKey), Some(BadKey)}
    /\ env \in {None, Some(EnvKey)}
    /\ prompt_arg \in {None} \cup {Some(w) : w \in PromptArgs}
    /\ Blank

\* main returns Err(..): the runtime prints it and exits with status 1.
Fail(why) ==
    /\ pc' = "failed"
    /\ failure' = why
    /\ exit' = Some(1)

\* Line 33.
Startup ==
    /\ pc = "start"
    /\ LET r == ResolveKey(key, env) IN
       \/ /\ r = None
          /\ Fail("missing_key")
          /\ UNCHANGED api_key
       \/ /\ r # None
          /\ api_key' = r[1]
          /\ pc' = "key"
          /\ UNCHANGED <<exit, failure>>
    /\ UNCHANGED << os, key, env, prompt_arg, handler_set, messages, new_messages,
                    prompt, response, output, requests, effect, confirm, executed,
                    reported, reads, turns >>

\* Lines 36-44.
BuildClient ==
    /\ pc = "key"
    /\ \/ /\ ~HeaderValueOk(<<"B", "e", "a", "r", "e", "r", " ">> \o api_key)
          /\ Fail("invalid_header")
       \/ /\ HeaderValueOk(<<"B", "e", "a", "r", "e", "r", " ">> \o api_key)
          /\ Fail("client_build")
       \/ /\ HeaderValueOk(<<"B", "e", "a", "r", "e", "r", " ">> \o api_key)
          /\ pc' = "client"
          /\ UNCHANGED <<exit, failure>>
    /\ UNCHANGED << os, key, env, prompt_arg, api_key, handler_set, messages,
                    new_messages, prompt, response, output, requests, effect, confirm,
                    executed, reported, reads, turns >>

\* Lines 98-104: the one-shot request.
OneShotSend ==
    /\ pc = "client"
    /\ prompt_arg # None
    /\ \E net \in NetOutcomes :
         LET text == Join(prompt_arg[1], <<" ">>)
             r == get_output(<<SystemMessage, Message("user", text)>>, net)
         IN  /\ requests' = Append(requests, r.request)
             /\ response' = net
             /\ \/ /\ r.result.t = "Err"
                   /\ Fail(r.result.e)
                   /\ UNCHANGED output
                \/ /\ r.result.t = "Ok"
                   /\ output' = r.result.v
                   /\ pc' = "shot"
                   /\ UNCHANGED <<exit, failure>>
    /\ UNCHANGED << os, key, env, prompt_arg, api_key, handler_set, messages,
                    new_messages, prompt, effect, confirm, executed, reported, reads,
                    turns >>

\* Lines 106-112 and 144: the one-shot result is handled or reported, and
\* main returns.
OneShotRespond ==
    /\ pc = "shot"
    /\ \/ /\ output.t = "Ok"
          /\ \E answer \in Answers, status \in Statuses :
               LET e == handle_output(os, output.v, answer, status) IN
               /\ effect' = e
               /\ confirm' = IF e.asked THEN answer ELSE "none"
               /\ executed' = executed \o e.spawned
               /\ \/ /\ e.outcome = "ok"
                     /\ pc' = "done"
                     /\ exit' = Some(0)
                     /\ UNCHANGED failure
                  \/ /\ e.outcome = "err"
                     /\ Fail("prompt_io")
                  \/ /\ e.outcome = "panic"
                     /\ pc' = "panicked"
                     /\ exit' = Some(101)
                     /\ UNCHANGED failure
          /\ UNCHANGED reported
       \/ /\ output.t = "Err"
          /\ reported' = <<output.e>>
          /\ pc' = "done"
          /\ exit' = Some(0)
          /\ UNCHANGED <<failure, effect, confirm, executed>>
    /\ UNCHANGED << os, key, env, prompt_arg, api_key, handler_set, messages,
                    new_messages, prompt, response, output, requests, reads,
                    turns >>

\* Lines 114-119: the handler is installed and the history starts with the
\* system message.
EnterRepl ==
    /\ pc = "client"
    /\ prompt_arg = None
    /\ \/ /\ Fail("ctrlc_handler")
          /\ UNCHANGED <<handler_set, messages>>
       \/ /\ handler_set' = TRUE
          /\ messages' = <<SystemMessage>>
          /\ pc' = "await"
          /\ UNCHANGED <<exit, failure>>
    /\ UNCHANGED << os, key, env, prompt_arg, api_key, new_messages, prompt,
                    response, output, requests, effect, confirm, executed, reported,
                    reads, turns >>

\* Lines 123-125: the working copy is cloned, a line is read and pushed.
ReadPrompt ==
    /\ pc = "await"
    /\ Len(requests) < MaxTurns
    /\ reads' = reads + 1
    /\ effect' = NoEffect
    /\ confirm' = "none"
    /\ reported' = <<>>
    /\ \/ /\ new_messages' = messages
          /\ Fail("prompt_io")
          /\ UNCHANGED prompt
       \/ \E line \in Prompts :
            /\ prompt' = line
            /\ new_messages' = Append(messages, Message("user", line))
            /\ pc' = "send"
            /\ UNCHANGED <<exit, failure>>
    /\ UNCHANGED << os, key, env, prompt_arg, api_key, handler_set, messages,
                    response, output, requests, executed, turns >>

\* Line 127: the REPL's request; a transport error leaves main through `?`.
ReplSend ==
    /\ pc = "send"
    /\ \E net \in NetOutcomes :
         LET r == get_output(new_messages, net) IN
         /\ requests' = Append(requests, r.request)
         /\ response' = net
         /\ \/ /\ r.result.t = "Err"
               /\ Fail(r.result.e)
               /\ UNCHANGED <<output, turns>>
            \/ /\ r.result.t = "Ok"
               /\ output' = r.result.v
               /\ turns' = IF r.result.v.t = "Ok"
                           THEN Append(turns, <<prompt, r.result.v.v>>)
                           ELSE turns
               /\ pc' = "sent"
               /\ UNCHANGED <<exit, failure>>
    /\ UNCHANGED << os, key, env, prompt_arg, api_key, handler_set, messages,
                    new_messages, prompt, effect, confirm, executed, reported, reads >>

\* Lines 134-135: the working copy with the assistant's reply pushed becomes
\* the history.
Committed_NoReply(working, reply) == working

Committed(working, reply) == Append(working, Message("assistant", reply))

\* Lines 129-139: a reply is handled and then committed to the history; an
\* error body is printed and the history is left as it was.
ReplRespond_InPlace ==
    /\ pc = "sent"
    /\ \/ /\ output.t = "Ok"
          /\ \E answer \in Answers, status \in Statuses :
               LET e == handle_output(os, output.v, answer, status) IN
               /\ effect' = e
               /\ confirm' = IF e.asked THEN answer ELSE "none"
               /\ executed' = executed \o e.spawned
               /\ \/ /\ e.outcome = "ok"
                     /\ new_messages' = Committed(new_messages, output.v)
                     /\ messages' = new_messages'
                     /\ pc' = "await"
                     /\ UNCHANGED <<exit, failure>>
                  \/ /\ e.outcome = "err"
                     /\ Fail("prompt_io")
                     /\ UNCHANGED <<messages, new_messages>>
                  \/ /\ e.outcome = "panic"
                     /\ pc' = "panicked"
                     /\ exit' = Some(101)
                     /\ UNCHANGED <<failure, messages, new_messages>>
          /\ UNCHANGED reported
       \/ /\ output.t = "Err"
          /\ reported' = <<output.e>>
          /\ messages' = new_messages
          /\ pc' = "await"
          /\ UNCHANGED <<exit, failure, new_messages, effect, confirm, executed>>
    /\ UNCHANGED << os, key, env, prompt_arg, api_key, handler_set, prompt,
                    response, output, requests, reads, turns >>

ReplRespond ==
    /\ pc = "sent"
    /\ \/ /\ output.t = "Ok"
          /\ \E answer \in Answers, status \in Statuses :
               LET e == handle_output(os, output.v, answer, status) IN
               /\ effect' = e
               /\ confirm' = IF e.asked THEN answer ELSE "none"
               /\ executed' = executed \o e.spawned
               /\ \/ /\ e.outcome = "ok"
                     /\ new_messages' = Committed(new_messages, output.v)
                     /\ messages' = new_messages'
                     /\ pc' = "await"
                     /\ UNCHANGED <<exit, failure>>
                  \/ /\ e.outcome = "err"
                     /\ Fail("prompt_io")
                     /\ UNCHANGED <<messages, new_messages>>
                  \/ /\ e.outcome = "panic"
                     /\ pc' = "panicked"
                     /\ exit' = Some(101)
                     /\ UNCHANGED <<failure, messages, new_messages>>
          /\ UNCHANGED reported
       \/ /\ output.t = "Err"
          /\ reported' = <<output.e>>
          /\ pc' = "await"
          /\ UNCHANGED <<exit, failure, messages, new_messages, effect, confirm, executed>>
    /\ UNCHANGED << os, key, env, prompt_arg, api_key, handler_set, prompt,
                    response, output, requests, reads, turns >>

\* Line 116: once installed, the handler ends the process with status 0
\* wherever the loop is.
Interrupt ==
    /\ handler_set
    /\ pc \in {"await", "send", "sent"}
    /\ pc' = "interrupted"
    /\ exit' = Some(0)
    /\ UNCHANGED << os, key, env, prompt_arg, failure, api_key, handler_set,
                    messages, new_messages, prompt, response, output, requests,
                    effect, confirm, executed, reported, reads, turns >>

Next ==
    \/ Startup
    \/ BuildClient
    \/ OneShotSend
    \/ OneShotRespond
    \/ EnterRepl
    \/ ReadPrompt
    \/ ReplSend
    \/ ReplRespond
    \/ Interrupt

Spec == Init /\ [][Next]_vars

\* ------------------------------------------------------------------ the output handler alone
\* handle_output applied to one response text drawn from Texts.
InitOutput ==
    /\ os \in OSes
    /\ key = None
    /\ env = None
    /\ prompt_arg = None
    /\ pc = "handler"
    /\ exit = None
    /\ failure = "none"
    /\ api_key = <<>>
    /\ handler_set = FALSE
    /\ messages = <<>>
    /\ new_messages = <<>>
    /\ prompt = <<>>
    /\ response = [t |-> "none"]
    /\ output \in {Ok(t) : t \in Texts}
    /\ requests = <<>>
    /\ effect = NoEffect
    /\ confirm = "none"
    /\ executed = <<>>
    /\ reported = <<>>
    /\ reads = 0
    /\ turns = <<>>

ApplyHandler ==
    /\ pc = "handler"
    /\ \E answer \in Answers, status \in Statuses :
         LET e == handle_output(os, output.v, answer, status) IN
         /\ effect' = e
         /\ confirm' = IF e.asked THEN answer ELSE "none"
         /\ executed' = executed \o e.spawned
    /\ pc' = "handled"
    /\ UNCHANGED << os, key, env, prompt_arg, exit, failure, api_key,
                    handler_set, messages, new_messages, prompt, response,
                    output, requests, reported, reads, turns >>

NextOutput == ApplyHandler

SpecOutput == InitOutput /\ [][NextOutput]_vars

\* ------------------------------------------------------------------ properties
Running == exit = None
Interactive == prompt_arg = None
Last(q) == q[Len(q)]
Transport == {"send_failed", "not_json"}

\* C1: between turns of the interactive loop, with N successful round trips
\* so far, the history has exactly 2N+1 entries: the system message, then for
\* each successful turn in order its user prompt and its assistant reply.
C1_History ==
    pc = "await" =>
        /\ Len(messages) = 2 * Len(turns) + 1
        /\ messages[1] = [role |-> "system", content |-> system_message(os)]
        /\ \A k \in 1..Len(turns) :
             /\ messages[2 * k] = [role |-> "user", content |-> turns[k][1]]
             /\ messages[2 * k + 1] = [role |-> "assistant", content |-> turns[k][2]]

C1_Witness ==
    /\ pc = "await"
    /\ Len(turns) = 2
    /\ turns[1] # turns[2]

\* The steps that may change the history, and what a request of the loop holds.
C2_FrameStep ==
    messages' # messages =>
        \/ pc = "client"
        \/ pc = "sent" /\ output.t = "Ok" /\ pc' = "await"

C2_RequestFromHistory ==
    (Interactive /\ pc \in {"send", "sent"}) =>
        /\ new_messages = Append(messages, [role |-> "user", content |-> prompt])
        /\ pc = "sent" => Last(requests).messages = new_messages

\* C2: no step of a failed turn changes the history: it changes only when
\* the loop is entered and when a reply has been handled, and every request
\* of the loop is the history as it then stands plus the line just read.
C2_FailedTurnKeepsHistory == [][C2_FrameStep]_vars /\ []C2_RequestFromHistory

C2_Witness ==
    /\ pc = "sent"
    /\ Len(requests) = 2
    /\ Len(turns) <= 1
    /\ Len(Last(requests).messages) = 2
    /\ reported = <<>>

\* C3: in interactive mode a transport failure of the API call leaves the
\* loop running (or interrupted by the operator), never ended by the failure.
C3_TransportKeepsLoop ==
    (Interactive /\ response.t \in Transport) =>
        pc \in {"await", "send", "sent", "interrupted"}

\* C4: the handler treats a text as a command exactly when its trimmed form
\* starts with the marker, and then shows the trimmed remainder after the
\* marker; any other text is shown whole as a plain answer.
C4_Extraction ==
    pc = "handled" =>
        LET text == output.v
            trimmed == Trim(text)
        IN  IF StartsWith(trimmed, Marker)
            THEN /\ effect.kind = "command"
                 /\ effect.shown =
                        <<Trim(SubSeq(trimmed, Len(Marker) + 1, Len(trimmed)))>>
            ELSE /\ effect.kind = "plain"
                 /\ effect.shown = <<text>>

\* C5: the handler starts a process only for a text carrying the marker and
\* only when the operator was asked and answered yes.
C5_SpawnOnlyOnYes ==
    pc = "handled" =>
        /\ executed = effect.spawned
        /\ executed # <<>> =>
             /\ effect.asked
             /\ confirm = "yes"
             /\ StartsWith(Trim(output.v), Marker)
        /\ Len(executed) <= 1

C5_Witness ==
    /\ pc = "handled"
    /\ effect.kind = "command"
    /\ effect.asked
    /\ confirm = "no"
    /\ executed = <<>>

\* C6: with no --key and no OPENAI_API_KEY the program fails at startup with
\* the missing-credential error, having sent no request and read no input.
C6_NoCredentialNoRequest ==
    (key = None /\ env = None) =>
        /\ requests = <<>>
        /\ reads = 0
        /\ pc \in {"start", "failed"}
        /\ pc = "failed" => failure = "missing_key" /\ exit = Some(1)

C6_Witness ==
    /\ key = None
    /\ env = None
    /\ pc = "failed"
    /\ prompt_arg = None

\* C7: an explicit --key is the credential whatever the environment holds,
\* and the missing-credential failure never happens when it is given.
C7_ExplicitKeySuffices ==
    key # None =>
        /\ failure # "missing_key"
        /\ pc \notin {"start", "failed"} => api_key = key[1]

\* text is the words in order with one space between neighbours.
RECURSIVE Offset(_, _)
Offset(words, i) ==
    IF i = 1 THEN 0 ELSE Offset(words, i - 1) + Len(words[i - 1]) + 1

SpaceJoined(words, text) ==
    /\ Len(text) = Offset(words, Len(words)) + Len(words[Len(words)])
    /\ \A i \in 1..Len(words) :
         /\ SubSeq(text, Offset(words, i) + 1, Offset(words, i) + Len(words[i]))
                = words[i]
         /\ i > 1 => text[Offset(words, i)] = " "

\* C8: a one-shot run sends at most one request, of exactly the system
\* message and one user message holding the words joined by single spaces;
\* it reads no "?" line, never enters the loop, and when main returns Ok
\* exactly one request was sent and its result was handled or reported.
C8_OneShot ==
    prompt_arg # None =>
        /\ Len(requests) <= 1
        /\ reads = 0
        /\ pc \notin {"await", "send", "sent", "interrupted"}
        /\ requests # <<>> =>
             /\ Len(requests[1].messages) = 2
             /\ requests[1].messages[1] =
                    [role |-> "system", content |-> system_message(os)]
             /\ requests[1].messages[2].role = "user"
             /\ SpaceJoined(prompt_arg[1], requests[1].messages[2].content)
             /\ prompt_arg[1] = <<<<"l", "i", "s", "t">>, <<"f", "i", "l", "e", "s">>>>
                    => requests[1].messages[2].content =
                           <<"l", "i", "s", "t", " ", "f", "i", "l", "e", "s">>
        /\ pc = "shot" => Len(requests) = 1 /\ effect = NoEffect /\ reported = <<>>
        /\ pc = "done" =>
             /\ Len(requests) = 1
             /\ exit = Some(0)
             /\ output.t = "Ok" =>
                  effect.outcome = "ok" /\ effect.shown # <<>> /\ reported = <<>>
             /\ output.t = "Err" =>
                  effect = NoEffect /\ reported = <<output.e>>

C8_Witness ==
    /\ prompt_arg = Some(<<<<"l", "i", "s", "t">>, <<"f", "i", "l", "e", "s">>>>)
    /\ pc = "done"
    /\ Len(requests) = 1
    /\ output.t = "Ok"

\* C9: once the interactive loop has been entered, the process ends only by
\* the interrupt, with status 0.
C9_OnlyInterruptEnds ==
    (Interactive /\ handler_set /\ ~Running) =>
        pc = "interrupted" /\ exit = Some(0)

\* The response shape read at lines 57-66, and the step after an error value.
HasKey(v, k) == v.t = "obj" /\ k \in DOMAIN v.o

WellShaped(b) ==
    /\ HasKey(b, "choices")
    /\ b.o["choices"].t = "arr"
    /\ Len(b.o["choices"].a) >= 1
    /\ HasKey(b.o["choices"].a[1], "message")
    /\ HasKey(b.o["choices"].a[1].o["message"], "content")
    /\ b.o["choices"].a[1].o["message"].o["content"].t = "str"

C10_Classified ==
    (pc \in {"shot", "sent"} /\ response.t = "json") =>
        IF WellShaped(response.body)
        THEN output =
             [t |-> "Ok", v |-> response.body.o["choices"].a[1].o["message"].o["content"].s]
        ELSE output = [t |-> "Err", e |-> response.body]

C10_NonFatalStep ==
    (pc \in {"shot", "sent"} /\ output.t = "Err" /\ pc' # pc) =>
        \/ pc' = "interrupted"
        \/ /\ pc' = IF Interactive THEN "await" ELSE "done"
           /\ exit' = IF Interactive THEN None ELSE Some(0)
           /\ failure' = "none"
           /\ reported' = <<response.body>>

\* C10: get_output returns the text exactly for a body whose `choices` is a
\* list whose first element has a `message` object with a string `content`,
\* and that text unchanged; for every other JSON body it returns the body
\* itself as the error value, and the caller's next step prints that body and
\* neither fails nor panics.
C10_ProviderError == []C10_Classified /\ [][C10_NonFatalStep]_vars

C10_Witness ==
    /\ pc = "await"
    /\ reported # <<>>
    /\ ~WellShaped(reported[1])
    /\ HasKey(reported[1], "choices")
====
